---- MODULE Spec2Model ----
(***************************************************************************)
(* A model of the go-spew literal dumper (package spew): fdump, dump,      *)
(* dumpPtr, dumpSlice, isZero, unpackValue, addImport, k8sType and         *)
(* Addressable.                                                            *)
(*                                                                         *)
(* A reflect.Value is a record with a kind, a type and the payload of its  *)
(* kind.  Pointers hold an address into heap; address 0 is the nil         *)
(* pointer.  A type is its String() cut into pieces (so that               *)
(* strings.HasPrefix is a comparison of the first pieces) and its          *)
(* PkgPath() cut into path segments.  Output is a sequence of the byte     *)
(* strings handed to Write.                                                *)
(*                                                                         *)
(* The traversal is a stack machine: one frame per active call of dump or  *)
(* dumpPtr, one action per stretch of code between two recursive calls.    *)
(* cs.DisableMethods is taken as set: handleMethods is never entered.      *)
(***************************************************************************)
EXTENDS Integers, Sequences, FiniteSets, TLC

\* ------------------------------------------------------------------ bounds
NumAddr == 2
MaxChain == 4
MaxArgs == 2
MaxDepthCfg == 2

Addr == 1..NumAddr

\* ------------------------------------------------------------ byte strings
openBraceNewlineBytes == "{\n"
closeBraceBytes == "}"
openParenBytes == "("
closeParenBytes == ")"
commaNewlineBytes == ",\n"
colonSpaceBytes == ": "
spaceBytes == " "
newlineBytes == "\n"
amperBytes == "&"
circularBytes == "<already shown>"
maxNewlineBytes == "<max depth reached>\n"
invalidAngleBytes == "<invalid>"
Indent == "\t"

\* ------------------------------------------------------------------- helpers
RECURSIVE Join(_)
Join(s) == IF s = <<>> THEN "" ELSE Head(s) \o Join(Tail(s))

RECURSIVE JoinPath(_)
JoinPath(p) ==
  IF p = <<>> THEN ""
  ELSE IF Len(p) = 1 THEN p[1]
  ELSE p[1] \o "/" \o JoinPath(Tail(p))

\* bytes.Repeat(b, n) as the n writes it amounts to
Repeat(b, n) == [k \in 1..n |-> b]

Last(s) == s[Len(s)]

\* F(x) with x evaluated once
With(x, F(_)) == CHOOSE r \in { F(y) : y \in {x} } : TRUE

Perms(S) ==
  { f \in [1..Cardinality(S) -> S] : \A x \in S : \E k \in DOMAIN f : f[k] = x }

\* path.Dir and path.Base on a path cut into segments
pathDir(p) == IF Len(p) <= 1 THEN <<".">> ELSE SubSeq(p, 1, Len(p) - 1)
pathBase(p) == IF p = <<>> THEN "." ELSE p[Len(p)]

\* --------------------------------------------------------------------- types
Type(str, pkgPath) == [str |-> str, pkgPath |-> pkgPath]

TInt == Type(<<"int">>, <<>>)
TUint8 == Type(<<"uint8">>, <<>>)
TString == Type(<<"string">>, <<>>)
TBool == Type(<<"bool">>, <<>>)
TFloat == Type(<<"float64">>, <<>>)
TComplex == Type(<<"complex128">>, <<>>)
TUintptr == Type(<<"uintptr">>, <<>>)
TChan == Type(<<"chan int">>, <<>>)
TIface == Type(<<"interface {}">>, <<>>)
TBytes == Type(<<"[]", "uint8">>, <<>>)
TInts == Type(<<"[]", "int">>, <<>>)
TIntArr0 == Type(<<"[0]int">>, <<>>)
TByteArr2 == Type(<<"[2]uint8">>, <<>>)
TAnys == Type(<<"[]", "interface {}">>, <<>>)
TByteSlices == Type(<<"[]", "[]uint8">>, <<>>)
TMap == Type(<<"map[string]interface {}">>, <<>>)
TPtrTo(t) == Type(<<"*">> \o t.str, <<>>)
TSliceOf(t) == Type(<<"[]">> \o t.str, <<>>)

\* the packages the named types of the inputs come from
PkgMain == <<"main">>
PkgCore == <<"k8s.io", "api", "core", "v1">>
PkgVendored == <<"proj", "vendor", "v1">>
PkgRoot == <<"v1">>
Pkgs == {PkgMain, PkgCore, PkgVendored, PkgRoot}
TNamed(pkg, name) == Type(<<pathBase(pkg) \o ".", name>>, pkg)
TNode == TNamed(PkgMain, "Node")
TInner == TNamed(PkgMain, "Inner")
TPodSlice == TSliceOf(TNamed(PkgCore, "Pod"))

\* -------------------------------------------------------------------- values
Invalid == [kind |-> "invalid"]
BoolV(b) == [kind |-> "bool", type |-> TBool, b |-> b]
IntV(n) == [kind |-> "int", type |-> TInt, n |-> n]
Uint8V(n) == [kind |-> "uint8", type |-> TUint8, n |-> n]
UintptrV(n) == [kind |-> "uintptr", type |-> TUintptr, n |-> n]
FloatV(n) == [kind |-> "float64", type |-> TFloat, n |-> n]
ComplexV(n) == [kind |-> "complex128", type |-> TComplex, n |-> n]
ChanV(n) == [kind |-> "chan", type |-> TChan, n |-> n]
StrV(s) == [kind |-> "string", type |-> TString, s |-> s]
PtrV(a, t) == [kind |-> "ptr", type |-> TPtrTo(t), addr |-> a]
NilIface == [kind |-> "interface", type |-> TIface, isNil |-> TRUE]
IfaceOf(v) == [kind |-> "interface", type |-> TIface, isNil |-> FALSE, val |-> v]
SliceV(t, isNil, elems) == [kind |-> "slice", type |-> t, isNil |-> isNil, elems |-> elems]
ArrayV(t, elems) == [kind |-> "array", type |-> t, isNil |-> FALSE, elems |-> elems]
MapV(t, isNil, entries) == [kind |-> "map", type |-> t, isNil |-> isNil, entries |-> entries]
Entry(k, v) == [key |-> k, val |-> v]
StructV(t, fields) == [kind |-> "struct", type |-> t, fields |-> fields]
Field(name, v) == [name |-> name, val |-> v]

IsNilV(v) ==
  CASE v.kind = "ptr" -> v.addr = 0
    [] v.kind \in {"slice", "map", "interface"} -> v.isNil
    [] OTHER -> FALSE

\* the kinds of the switch statements
IntKinds == {"int"}
UintKinds == {"uint8"}

\* ------------------------------------------------------- unpackValue, isZero
unpackValue(v) ==
  IF v.kind = "interface" /\ ~v.isNil THEN v.val ELSE v

\* isZero without its pointer test: a pointer falls through the switch
RECURSIVE isZeroNoPtr(_)
isZeroNoPtr(v) ==
  CASE v.kind = "bool" -> v.b = FALSE
    [] v.kind \in IntKinds \cup UintKinds \cup {"float64", "uintptr"} -> v.n = 0
    [] v.kind \in {"slice", "interface", "map"} -> v.isNil
    [] v.kind = "array" -> Len(v.elems) = 0
    [] v.kind = "string" -> v.s = ""
    [] v.kind = "struct" ->
         \A i \in 1..Len(v.fields) : isZeroNoPtr(unpackValue(v.fields[i].val))
    [] OTHER -> FALSE

RECURSIVE isZero(_)
isZero(v) ==
  CASE v.kind = "invalid" -> FALSE
    [] v.kind = "ptr" -> v.addr = 0
    [] v.kind = "bool" -> v.b = FALSE
    [] v.kind \in IntKinds -> v.n = 0
    [] v.kind \in UintKinds -> v.n = 0
    [] v.kind = "float64" -> v.n = 0
    [] v.kind = "slice" -> v.isNil
    [] v.kind = "array" -> Len(v.elems) = 0
    [] v.kind = "string" -> v.s = ""
    [] v.kind = "interface" -> v.isNil
    [] v.kind = "map" -> v.isNil
    [] v.kind = "struct" ->
         \A i \in 1..Len(v.fields) : isZero(unpackValue(v.fields[i].val))
    [] v.kind = "uintptr" -> v.n = 0
    [] OTHER -> FALSE

\* --------------------------------------------------------------- Addressable
Addressable(v) ==
  v.kind \in {"array", "chan", "func", "interface", "map", "ptr", "slice",
              "struct", "unsafeptr"}

\* ----------------------------------------------------------------- addImport
\* regexp (?m)^.*\/vendor\/ replaced by "": everything up to and including
\* the last "/vendor/" goes
stripVendor(p) ==
  With({ i \in 2..(Len(p) - 1) : p[i] = "vendor" }, LAMBDA hits :
    IF hits = {} THEN p
    ELSE SubSeq(p, (CHOOSE i \in hits : \A j \in hits : j <= i) + 1, Len(p)))

addImport(imports, pkgPath, alias) ==
  With(stripVendor(pkgPath), LAMBDA key :
    IF key \in DOMAIN imports THEN imports ELSE (key :> alias) @@ imports)

\* ------------------------------------------------------------------- k8sType
\* strings.HasPrefix on a type string cut into pieces
HasPrefixV1(str) == Len(str) >= 1 /\ str[1] = "v1."
HasPrefixSliceV1(str) == Len(str) >= 2 /\ str[1] = "[]" /\ str[2] = "v1."

\* [str, imports, panics]: the string returned, d.imports afterwards, and
\* whether v.Index(0) was out of range
k8sTypeV1(imports, v) ==
  IF HasPrefixV1(v.type.str)
  THEN With(pathBase(pathDir(v.type.pkgPath)), LAMBDA k8sapi :
         [str |-> <<k8sapi>> \o v.type.str,
          imports |-> addImport(imports, v.type.pkgPath, k8sapi \o "v1")])
  ELSE [str |-> v.type.str, imports |-> imports]

k8sTypeSlice(r, v) ==
  IF ~HasPrefixSliceV1(r.str)
  THEN [str |-> r.str, imports |-> r.imports, panics |-> FALSE]
  ELSE IF Len(v.elems) = 0
  THEN [str |-> r.str, imports |-> r.imports, panics |-> TRUE]
  ELSE With(pathBase(pathDir(v.elems[1].type.pkgPath)), LAMBDA k8sapi :
         [str |-> <<"[]" \o k8sapi \o "v1.">> \o SubSeq(r.str, 3, Len(r.str)),
          imports |-> addImport(r.imports, v.elems[1].type.pkgPath, k8sapi \o "v1"),
          panics |-> FALSE])

k8sType(imports, v) ==
  With(k8sTypeSlice(k8sTypeV1(imports, v), v), LAMBDA r :
    [str |-> Join(r.str),
     imports |-> addImport(r.imports, v.type.pkgPath, ""),
     panics |-> r.panics])

\* --------------------------------------------------------------------- state
VARIABLES
  heap,      \* address -> the value stored there
  args,      \* fdump's a ...interface{}
  cs,        \* the ConfigState: MaxDepth, SortKeys, Pkg
  argi,      \* fdump: index of the argument of the first loop
  imports,   \* fdump: imports
  structs,   \* fdump: structs
  w,         \* fdump: the writer's contents
  pc,        \* fdump: "loop", "dump" (inside d.dump), "done", or "panic"
  d,         \* the dumpState of the argument being dumped
  stack,     \* the active calls of dump and dumpPtr, innermost last
  isZeroArg, \* the value a direct call of isZero is given
  isZeroRet  \* that call: whether it returned, and what

vars == <<heap, args, cs, argi, imports, structs, w, pc, d, stack, isZeroArg, isZeroRet>>
\* what fdump and the traversal never assign
inputVars == <<heap, args, cs, isZeroArg, isZeroRet>>
fdumpVars == <<argi, imports, structs, w>>

\* interface{}(nil) as an argument of fdump
NilArg == [kind |-> "nilarg"]

NoImports == [k \in {} |-> ""]
NoPointers == [a \in {} |-> 0]

\* dumpState{w: &b, cs: cs, imports: make(map[string]string)} with pointers
\* made right after
newDumpState ==
  [w |-> <<>>, depth |-> 0, pointers |-> NoPointers,
   ignoreNextType |-> FALSE, ignoreNextIndent |-> FALSE, imports |-> NoImports]

Write(ds, bytes) == [ds EXCEPT !.w = Append(@, bytes)]
WriteAll(ds, seq) == [ds EXCEPT !.w = @ \o seq]

\* indent that skips the indentation and leaves the flag set
indentKeepFlag(ds) ==
  IF ds.ignoreNextIndent THEN ds ELSE WriteAll(ds, Repeat(Indent, ds.depth))

\* lines 62-68
indent(ds) ==
  With(ds, LAMBDA s :
    IF s.ignoreNextIndent THEN [s EXCEPT !.ignoreNextIndent = FALSE]
    ELSE WriteAll(s, Repeat(Indent, s.depth)))

\* the depth test one level late
maxDepthReachedLate(ds) == cs.MaxDepth # 0 /\ ds.depth > cs.MaxDepth + 1

\* (d.cs.MaxDepth != 0) && (d.depth > d.cs.MaxDepth)
maxDepthReached(ds) == cs.MaxDepth # 0 /\ ds.depth > cs.MaxDepth

\* the locals of one call of dump (fn = "dump") or dumpPtr (fn = "dumpPtr")
Frame(fn, at, v) ==
  [fn |-> fn, pc |-> at, v |-> v, ve |-> v, byteString |-> FALSE, i |-> 0,
   keys |-> <<>>, pointerChain |-> <<>>, indirects |-> 0,
   nilFound |-> FALSE, cycleFound |-> FALSE]

top == stack[Len(stack)]
Running == pc = "dump" /\ stack # <<>>
InDump(at) == Running /\ top.fn = "dump" /\ top.pc = at
InDumpPtr(at) == Running /\ top.fn = "dumpPtr" /\ top.pc = at
Entering(kinds) == InDump("enter") /\ top.v.kind \in kinds

\* the ways an action of the traversal ends
Return(ds) ==
  /\ d' = ds
  /\ stack' = SubSeq(stack, 1, Len(stack) - 1)
  /\ UNCHANGED <<inputVars, fdumpVars, pc>>
Call(ds, frame, v) ==
  /\ d' = ds
  /\ stack' = Append([stack EXCEPT ![Len(stack)] = frame], Frame("dump", "enter", v))
  /\ UNCHANGED <<inputVars, fdumpVars, pc>>
Goto(ds, frame) ==
  /\ d' = ds
  /\ stack' = [stack EXCEPT ![Len(stack)] = frame]
  /\ UNCHANGED <<inputVars, fdumpVars, pc>>
Panic(ds) ==
  /\ d' = ds
  /\ pc' = "panic"
  /\ UNCHANGED <<inputVars, fdumpVars, stack>>

\* ------------------------------------------------------- dump: the type part
TQuantity == Type(<<"resource.", "Quantity">>, <<"k8s.io", "apimachinery", "pkg", "api", "resource">>)
QuantityV(n) == StructV(TQuantity, <<Field("i", IntV(n))>>)
IsQuantity(v) == Join(v.type.str) = "resource.Quantity"
\* what the value's MarshalJSON method returns
MarshalJSON(v) == "\"" \o ToString(v.fields[1].val.n) \o "\""

\* lines 278, 281, 294: d.w.Write([]byte(k8sType(d, v)))
writeType(ds, v) ==
  With(k8sType(ds.imports, v), LAMBDA kt :
    [d |-> IF kt.panics THEN ds ELSE Write([ds EXCEPT !.imports = kt.imports], kt.str),
     byteString |-> FALSE, panics |-> kt.panics])

\* lines 271-296 after d.indent(): [d, byteString, panics]
typeSwitch(ds, v) ==
  CASE v.kind \in {"slice", "array"} ->
         IF Len(v.elems) = 0
         THEN [d |-> ds, byteString |-> FALSE, panics |-> TRUE]
         ELSE IF v.elems[1].kind = "uint8"
         THEN [d |-> Write(ds, "[]byte"), byteString |-> TRUE, panics |-> FALSE]
         ELSE writeType(ds, v)
    [] v.kind = "map" -> writeType(ds, v)
    [] v.kind \in {"interface", "struct"} ->
         IF IsQuantity(v) /\ ~isZero(v)
         THEN [d |-> Write([ds EXCEPT !.imports = addImport(@, TQuantity.pkgPath, "")],
                           "resource.MustParse(" \o MarshalJSON(v) \o ")"),
               byteString |-> TRUE, panics |-> FALSE]
         ELSE writeType(ds, v)
    [] OTHER -> [d |-> ds, byteString |-> FALSE, panics |-> FALSE]

\* lines 267-301: [d, byteString, panics]
typePart(ds, v) ==
  IF ds.ignoreNextType
  THEN [d |-> [ds EXCEPT !.ignoreNextType = FALSE], byteString |-> FALSE, panics |-> FALSE]
  ELSE With(typeSwitch(indent(ds), v), LAMBDA r :
         [d |-> [(IF r.byteString \/ r.panics THEN r.d ELSE Write(r.d, spaceBytes))
                   EXCEPT !.ignoreNextType = FALSE],
          byteString |-> r.byteString, panics |-> r.panics])

\* ------------------------------------------------------------ dump: leaves
NewlineStrings == {"x\ny"}
\* the backquote of a raw string literal (a TLA+ string cannot hold one)
backquote == "'"
Chr(n) == IF n = 97 THEN "a" ELSE IF n = 98 THEN "b" ELSE "?"

\* printBool, printInt, printUint, printFloat, printComplex, printHexPtr and
\* the string case, as the bytes written
leafBytes(v) ==
  CASE v.kind = "bool" -> IF v.b THEN "true" ELSE "false"
    [] v.kind \in IntKinds \cup UintKinds \cup {"float64"} -> ToString(v.n)
    [] v.kind = "complex128" -> "(" \o ToString(v.n) \o "+0i)"
    [] v.kind = "string" ->
         IF v.s \in NewlineStrings THEN backquote \o v.s \o backquote ELSE "\"" \o v.s \o "\""
    [] v.kind \in {"uintptr", "chan"} -> "0x" \o ToString(v.n)
    [] v.kind = "interface" -> "nil"

LeafKinds ==
  {"bool", "float64", "complex128", "string", "interface", "uintptr", "chan"}
    \cup IntKinds \cup UintKinds

\* lines 255-258 (reflect.Invalid) are not reached from fdump: reflect.ValueOf
\* of a non-nil argument, Field, Index, MapIndex of a key of the map and Elem
\* of a non-nil pointer or interface are all valid.

\* lines 267-337, 367-381, 445-449: a value that holds no other value
DumpLeaf ==
  /\ Entering(LeafKinds)
  /\ \E r \in {typePart(d, top.v)} :
       IF top.v.kind = "interface" /\ ~top.v.isNil
       THEN Return(r.d)
       ELSE Return(Write(r.d, leafBytes(top.v)))

\* ------------------------------------------------------------------ dumpPtr
\* lines 92-96
purgePointers(ds) ==
  With(ds, LAMBDA s :
    [s EXCEPT !.pointers =
       [a \in {x \in DOMAIN s.pointers : s.pointers[x] < s.depth} |-> s.pointers[a]]])

\* lines 261-264 and 89-107: d.indent(), then dumpPtr up to its loop
DumpPointer ==
  /\ Entering({"ptr"})
  /\ Goto(purgePointers(indent(d)), Frame("dumpPtr", "walk", top.v))

\* pd, ok := d.pointers[addr]; ok && pd < d.depth
isCircular(ds, addr) == addr \in DOMAIN ds.pointers /\ ds.pointers[addr] < ds.depth

\* lines 108-131: one turn of the loop
DumpPtrWalk ==
  /\ InDumpPtr("walk")
  /\ top.ve.kind = "ptr" /\ ~top.nilFound /\ ~top.cycleFound
  /\ Len(top.pointerChain) < MaxChain
  /\ \E f \in {top} : \E addr \in {top.ve.addr} :
       IF addr = 0
       THEN Goto(d, [f EXCEPT !.nilFound = TRUE])
       ELSE IF isCircular(d, addr)
       THEN Goto(d, [f EXCEPT !.cycleFound = TRUE, !.pointerChain = Append(@, addr)])
       ELSE \E d1 \in {[d EXCEPT !.pointers = (addr :> d.depth) @@ @]} :
            \E f1 \in {[f EXCEPT !.pointerChain = Append(@, addr), !.indirects = @ + 1]} :
            \E elem \in {heap[addr]} :
              IF elem.kind = "interface"
              THEN IF elem.isNil
                   THEN Goto(d1, [f1 EXCEPT !.ve = elem, !.nilFound = TRUE])
                   ELSE Goto(d1, [f1 EXCEPT !.ve = elem.val])
              ELSE Goto(d1, [f1 EXCEPT !.ve = elem])

LoopLeft == InDumpPtr("walk") /\ (top.ve.kind # "ptr" \/ top.nilFound \/ top.cycleFound)

\* lines 132-135
DumpPtrNil ==
  /\ LoopLeft /\ top.nilFound
  /\ Return(Write(d, "nil"))

\* line 140
funcWrapper(ve) ==
  "func(x " \o Join(ve.type.str) \o ") *" \o Join(ve.type.str) \o " {return &x }("

\* lines 137-148: [d, panics]
ptrTypePart(ds, ve, indirects) ==
  IF ~Addressable(ve)
  THEN [d |-> Write(ds, funcWrapper(ve)), byteString |-> FALSE, panics |-> FALSE]
  ELSE With(IF ds.depth = 0 THEN Write(ds, "var _ = ") ELSE ds, LAMBDA d1 :
         writeType(WriteAll(d1, Repeat(amperBytes, indirects)), ve))

\* lines 159-161
ptrClose(ds, ve) == IF Addressable(ve) THEN ds ELSE Write(ds, closeParenBytes)

\* lines 137-153, 159-161
DumpPtrCircular ==
  /\ LoopLeft /\ ~top.nilFound /\ top.cycleFound
  /\ \E r \in {ptrTypePart(d, top.ve, top.indirects)} :
       IF r.panics THEN Panic(r.d)
       ELSE Return(ptrClose(Write(r.d, circularBytes), top.ve))

\* lines 137-148, 155-157
DumpPtrDeref ==
  /\ LoopLeft /\ ~top.nilFound /\ ~top.cycleFound
  /\ \E r \in {ptrTypePart(d, top.ve, top.indirects)} :
       IF r.panics THEN Panic(r.d)
       ELSE Call([r.d EXCEPT !.ignoreNextType = TRUE], [top EXCEPT !.pc = "ret"], top.ve)

\* lines 159-162, after d.dump(ve) came back
DumpPtrReturn ==
  /\ InDumpPtr("ret")
  /\ Return(ptrClose(d, top.ve))


\* ----------------------------------------------------- dump: slices, arrays
IsSliceNil(v) == v.kind = "slice" /\ v.isNil

\* lines 347-354
openSlice(ds, byteString) ==
  [Write(ds, IF byteString THEN openParenBytes ELSE openBraceNewlineBytes)
     EXCEPT !.depth = @ + 1]

\* the close of a slice with d.depth-- left out
closeSliceKeepDepth(ds, byteString) ==
  IF byteString THEN Write(ds, closeParenBytes)
  ELSE Write(indent(ds), closeBraceBytes)

\* lines 361-365
closeSlice(ds, byteString) ==
  IF byteString THEN Write([ds EXCEPT !.depth = @ - 1], closeParenBytes)
  ELSE Write(indent([ds EXCEPT !.depth = @ - 1]), closeBraceBytes)

\* lines 356-357, 397-398, 421-422
writeMax(ds) == Write(indent(ds), maxNewlineBytes)

\* lines 170-229: doHexDump (none of the inputs is a cgo type, and
\* UnsafeDisabled is false)
doHexDump(v) == Len(v.elems) > 0 /\ v.elems[1].kind = "uint8"

RECURSIVE bufString(_)
bufString(elems) ==
  IF elems = <<>> THEN "" ELSE Chr(Head(elems).n) \o bufString(Tail(elems))

\* lines 232-239
hexDump(ds, v) == Write(ds, backquote \o bufString(v.elems) \o backquote)

\* lines 272-276: v.Index(0) of a value of length 0
DumpSlicePanic ==
  /\ Entering({"slice", "array"})
  /\ \E r \in {typePart(d, top.v)} :
       /\ r.panics
       /\ Panic(r.d)

\* lines 339-343
DumpSliceNil ==
  /\ Entering({"slice", "array"})
  /\ \E r \in {typePart(d, top.v)} :
       /\ ~r.panics /\ IsSliceNil(top.v)
       /\ Return(Write(r.d, "nil"))

\* lines 346-365 with the depth limit reached
DumpSliceMax ==
  /\ Entering({"slice", "array"})
  /\ \E r \in {typePart(d, top.v)} : \E d1 \in {openSlice(r.d, r.byteString)} :
       /\ ~r.panics /\ ~IsSliceNil(top.v)
       /\ maxDepthReached(d1)
       /\ Return(closeSlice(writeMax(d1), r.byteString))

\* lines 346-365 with dumpSlice writing the bytes as one string
DumpSliceHex ==
  /\ Entering({"slice", "array"})
  /\ \E r \in {typePart(d, top.v)} : \E d1 \in {openSlice(r.d, r.byteString)} :
       /\ ~r.panics /\ ~IsSliceNil(top.v)
       /\ ~maxDepthReached(d1) /\ doHexDump(top.v)
       /\ Return(closeSlice(hexDump(d1, top.v), r.byteString))

\* lines 346-360, 241-243: up to the dump of the first element
DumpSliceElems ==
  /\ Entering({"slice", "array"})
  /\ \E r \in {typePart(d, top.v)} : \E d1 \in {openSlice(r.d, r.byteString)} :
       /\ ~r.panics /\ ~IsSliceNil(top.v)
       /\ ~maxDepthReached(d1) /\ ~doHexDump(top.v)
       /\ IF Len(top.v.elems) = 0
          THEN Return(closeSlice(d1, r.byteString))
          ELSE Call(d1, [top EXCEPT !.pc = "elem", !.i = 1, !.byteString = r.byteString],
                    unpackValue(top.v.elems[1]))

\* lines 244, 242-243, 361-365: after the dump of element i
DumpSliceNext ==
  /\ InDump("elem")
  /\ \E d1 \in {Write(d, commaNewlineBytes)} :
       IF top.i < Len(top.v.elems)
       THEN Call(d1, [top EXCEPT !.i = @ + 1], unpackValue(top.v.elems[top.i + 1]))
       ELSE Return(closeSlice(d1, top.byteString))

\* ---------------------------------------------------------------- dump: maps
MapKeys(v) == { e.key : e \in v.entries }
MapIndex(v, key) == (CHOOSE e \in v.entries : e.key = key).val

\* sortValues of common.go on keys of an integer kind: ascending
valueSortLess(a, b) == a.n < b.n
sortValues(keys) == SortSeq(keys, valueSortLess)

\* the keys left as MapKeys ranged over them
orderKeysAsRanged(keys) == keys

\* lines 400-403 on the keys as v.MapKeys() returned them
orderKeys(keys) == IF cs.SortKeys THEN sortValues(keys) ELSE keys

\* lines 412-414, 441-443
closeBrace(ds) == Write(indent([ds EXCEPT !.depth = @ - 1]), closeBraceBytes)

\* lines 394-395, 418-419
openBrace(ds) == [Write(ds, openBraceNewlineBytes) EXCEPT !.depth = @ + 1]

\* lines 389-392
DumpMapNil ==
  /\ Entering({"map"})
  /\ top.v.isNil
  /\ Return(Write(typePart(d, top.v).d, "nil"))

\* lines 394-398, 412-414
DumpMapMax ==
  /\ Entering({"map"})
  /\ ~top.v.isNil
  /\ \E d1 \in {openBrace(typePart(d, top.v).d)} :
       /\ maxDepthReached(d1)
       /\ Return(closeBrace(writeMax(d1)))

\* lines 394-405: up to the dump of the first key; v.MapKeys() returns the
\* keys in any order
DumpMap ==
  /\ Entering({"map"})
  /\ ~top.v.isNil
  /\ \E d1 \in {openBrace(typePart(d, top.v).d)} :
       /\ ~maxDepthReached(d1)
       /\ \E order \in Perms(MapKeys(top.v)) : \E keys \in {orderKeys(order)} :
            IF keys = <<>>
            THEN Return(closeBrace(d1))
            ELSE Call(d1, [top EXCEPT !.pc = "key", !.i = 1, !.keys = keys],
                      unpackValue(keys[1]))

\* lines 406-408: after the dump of key i
DumpMapValue ==
  /\ InDump("key")
  /\ Call([Write(d, colonSpaceBytes) EXCEPT !.ignoreNextIndent = TRUE],
          [top EXCEPT !.pc = "val"],
          unpackValue(MapIndex(top.v, top.keys[top.i])))

\* lines 409, 404-405, 412-414: after the dump of the value of key i
DumpMapNext ==
  /\ InDump("val")
  /\ \E d1 \in {Write(d, commaNewlineBytes)} :
       IF top.i < Len(top.keys)
       THEN Call(d1, [top EXCEPT !.pc = "key", !.i = @ + 1],
                 unpackValue(top.keys[top.i + 1]))
       ELSE Return(closeBrace(d1))

\* ------------------------------------------------------------- dump: structs
\* the skip test made on the unpacked field
skipFieldUnpacked(v, i) == isZero(unpackValue(v.fields[i].val))

\* line 427: the test that skips field i
skipField(v, i) == isZero(v.fields[i].val)

\* the first field after field i that the loop of lines 426-439 does not
\* skip, 0 when there is none
nextField(v, i) ==
  With({ j \in (i + 1)..Len(v.fields) : ~skipField(v, j) }, LAMBDA S :
    IF S = {} THEN 0 ELSE CHOOSE j \in S : \A k \in S : j <= k)

\* lines 431-437: up to the dump of field j
dumpField(ds, frame, j) ==
  Call([Write(Write(indent(ds), frame.v.fields[j].name), colonSpaceBytes)
          EXCEPT !.ignoreNextIndent = TRUE],
       [frame EXCEPT !.pc = "field", !.i = j],
       unpackValue(frame.v.fields[j].val))

\* lines 282-296, 416-417: the quantity type is written by the type part
DumpQuantity ==
  /\ Entering({"struct"})
  /\ IsQuantity(top.v)
  /\ Return(typePart(d, top.v).d)

\* lines 418-422, 441-443
DumpStructMax ==
  /\ Entering({"struct"})
  /\ ~IsQuantity(top.v)
  /\ \E d1 \in {openBrace(typePart(d, top.v).d)} :
       /\ maxDepthReached(d1)
       /\ Return(closeBrace(writeMax(d1)))

\* lines 418-437: up to the dump of the first field that is not skipped
DumpStruct ==
  /\ Entering({"struct"})
  /\ ~IsQuantity(top.v)
  /\ \E d1 \in {openBrace(typePart(d, top.v).d)} : \E j \in {nextField(top.v, 0)} :
       /\ ~maxDepthReached(d1)
       /\ IF j = 0 THEN Return(closeBrace(d1)) ELSE dumpField(d1, top, j)

\* lines 438, 426-437, 441-443: after the dump of field i
DumpStructNext ==
  /\ InDump("field")
  /\ \E d1 \in {Write(d, commaNewlineBytes)} : \E j \in {nextField(top.v, top.i)} :
       IF j = 0 THEN Return(closeBrace(d1)) ELSE dumpField(d1, top, j)


\* --------------------------------------------------------------------- fdump
\* lines 480-482: for k, v := range d.imports { imports[k] = v }
mergeImports(into, from) ==
  [k \in DOMAIN into \cup DOMAIN from |->
     IF k \in DOMAIN from THEN from[k] ELSE into[k]]

\* lines 486-488
packageBytes == IF cs.Pkg # "" THEN <<"package " \o cs.Pkg \o "\n\n">> ELSE <<>>

\* lines 493-502: what one turn of the loop over imports writes
importLine(pkg, alias) ==
  IF pkg = <<>> THEN <<>>
  ELSE IF alias = "" THEN <<"\n\t", "\"" \o JoinPath(pkg) \o "\"">>
  ELSE <<"\n\t", alias \o " \"" \o JoinPath(pkg) \o "\"">>

RECURSIVE importLines(_, _)
importLines(imps, order) ==
  IF order = <<>> THEN <<>>
  ELSE importLine(Head(order), imps[Head(order)]) \o importLines(imps, Tail(order))

\* lines 490-505, the map ranged over in the given order
importBytes(imps, order) ==
  IF Cardinality(DOMAIN imps) > 0
  THEN <<"import (">> \o importLines(imps, order) \o <<"\n)\n\n">>
  ELSE <<>>

RECURSIVE Flatten(_)
Flatten(ss) == IF ss = <<>> THEN <<>> ELSE Head(ss) \o Flatten(Tail(ss))

\* the literals written ahead of the package clause and the imports
writeOutputLiteralsFirst(order) ==
  Flatten(structs) \o packageBytes \o importBytes(imports, order)

\* lines 486-510: everything fdump writes to w
writeOutput(order) ==
  packageBytes \o importBytes(imports, order) \o Flatten(structs)

\* lines 469-473: a nil argument is passed over
FdumpSkipNil ==
  /\ pc = "loop" /\ argi <= Len(args)
  /\ args[argi].kind = "nilarg"
  /\ argi' = argi + 1
  /\ UNCHANGED <<inputVars, imports, structs, w, pc, d, stack>>

\* a dumpState that takes over the pointers of the one before it
dumpStateKeepingPointers(prev) == [newDumpState EXCEPT !.pointers = prev.pointers]

\* lines 474-476: the dumpState made for an argument; nothing of the one made
\* for the argument before goes into it
dumpStateFor(prev) == newDumpState

\* lines 470-478: up to d.dump(reflect.ValueOf(arg))
FdumpDump ==
  /\ pc = "loop" /\ argi <= Len(args)
  /\ args[argi].kind # "nilarg"
  /\ d' = dumpStateFor(d)
  /\ stack' = <<Frame("dump", "enter", args[argi])>>
  /\ pc' = "dump"
  /\ UNCHANGED <<inputVars, fdumpVars>>

\* lines 479-483: after d.dump came back
FdumpCollect ==
  /\ pc = "dump" /\ stack = <<>>
  /\ imports' = mergeImports(imports, d.imports)
  /\ structs' = Append(structs, Append(d.w, newlineBytes))
  /\ argi' = argi + 1
  /\ pc' = "loop"
  /\ UNCHANGED <<inputVars, w, d, stack>>

\* lines 486-510: the loop over imports takes its keys in any order
FdumpWrite ==
  /\ pc = "loop" /\ argi > Len(args)
  /\ \E order \in Perms(DOMAIN imports) :
       w' = writeOutput(order)
  /\ pc' = "done"
  /\ UNCHANGED <<inputVars, argi, imports, structs, d, stack>>

\* -------------------------------------------------------------------- inputs
\* type Node struct { Val int; Next *Node; In Inner }
\* type Inner struct { P *Node }
NodeV(val, next, inp) ==
  StructV(TNode, <<Field("Val", IntV(val)),
                   Field("Next", PtrV(next, TNode)),
                   Field("In", StructV(TInner, <<Field("P", PtrV(inp, TNode))>>))>>)

\* type Holder struct { Data []byte; Any interface{}; Q resource.Quantity }
THolder == TNamed(PkgMain, "Holder")
HolderV(data, any, q) ==
  StructV(THolder, <<Field("Data", data), Field("Any", any), Field("Q", q)>>)

\* type Pod struct { N int } of package pkg
PodV(pkg, n) == StructV(TNamed(pkg, "Pod"), <<Field("N", IntV(n))>>)

NilBytes == SliceV(TBytes, TRUE, <<>>)
EmptyBytes == SliceV(TBytes, FALSE, <<>>)
Bytes == SliceV(TBytes, FALSE, <<Uint8V(97), Uint8V(98)>>)
TIntMap == Type(<<"map[int]interface {}">>, <<>>)
TSelfPtr == TNamed(PkgMain, "P")

Others == 2..NumAddr

\* what address 1 may hold when it holds no Node
HeadShapes ==
  \* interface{} variables
  {NilIface, IfaceOf(PtrV(1, TIface)), IfaceOf(IntV(1)), IfaceOf(StrV("a"))}
    \cup {IfaceOf(PtrV(a, TNode)) : a \in Others}
  \* pointers: type P *P pointing at itself, and **Node
    \cup {[PtrV(1, TSelfPtr) EXCEPT !.type = TSelfPtr], PtrV(0, TNode)}
    \cup {PtrV(a, TNode) : a \in Others}
  \* scalars and strings
    \cup {IntV(1), StrV("x\ny"), BoolV(TRUE), ChanV(3)}
  \* byte slices and arrays, other slices and arrays
    \cup {NilBytes, EmptyBytes, Bytes,
          ArrayV(TByteArr2, <<Uint8V(97), Uint8V(98)>>), ArrayV(TIntArr0, <<>>),
          SliceV(TInts, FALSE, <<IntV(1), IntV(0)>>),
          SliceV(TByteSlices, FALSE, <<Bytes>>),
          SliceV(TByteSlices, FALSE, <<EmptyBytes>>),
          SliceV(TPodSlice, FALSE, <<>>),
          SliceV(TPodSlice, FALSE, <<PodV(PkgCore, 1)>>)}
  \* []interface{}
    \cup {SliceV(TAnys, FALSE, <<IfaceOf(PtrV(1, TAnys))>>),
          SliceV(TAnys, FALSE, <<NilIface, IfaceOf(Bytes)>>),
          SliceV(TAnys, FALSE, <<IfaceOf(SliceV(TInts, TRUE, <<>>))>>)}
    \cup {SliceV(TAnys, FALSE, <<IfaceOf(PtrV(a, TNode)), IfaceOf(PtrV(a, TNode))>>) : a \in Others}
  \* map[int]interface{}
    \cup {MapV(TIntMap, TRUE, {}), MapV(TIntMap, FALSE, {}),
          MapV(TIntMap, FALSE, {Entry(IntV(1), IfaceOf(PtrV(1, TIntMap)))}),
          MapV(TIntMap, FALSE, {Entry(IntV(2), IfaceOf(IntV(1))), Entry(IntV(1), IfaceOf(Bytes))}),
          MapV(TIntMap, FALSE, {Entry(IntV(1), IfaceOf(EmptyBytes))}),
          MapV(TIntMap, FALSE, {Entry(IntV(1), IfaceOf(MapV(TIntMap, FALSE,
                                   {Entry(IntV(1), IfaceOf(MapV(TIntMap, FALSE, {})))})))})}
    \cup {MapV(TIntMap, FALSE, {Entry(IntV(1), IfaceOf(PtrV(a, TNode))),
                                Entry(IntV(2), IfaceOf(PtrV(a, TNode)))}) : a \in Others}
  \* structs with byte slices, interfaces and quantities in them
    \cup {HolderV(Bytes, NilIface, QuantityV(0)),
          HolderV(NilBytes, IfaceOf(IntV(0)), QuantityV(5)),
          HolderV(EmptyBytes, IfaceOf(Bytes), QuantityV(0)),
          HolderV(NilBytes, IfaceOf(IntV(0)), QuantityV(0)),
          QuantityV(5), QuantityV(0)}

\* the Nodes address 1 may hold
HeadNodes == { NodeV(val, nx, ip) : val \in {0, 1}, nx \in 0..NumAddr, ip \in 0..NumAddr }

\* the other addresses hold Nodes; a *Node points at a Node or is nil
TailTargets(head) == IF head \in HeadNodes THEN 0..NumAddr ELSE {0} \cup Others
Heaps ==
  { [a \in Addr |-> IF a = 1 THEN head ELSE NodeV(1, nx[a], 0)] :
      <<head, nx>> \in
        UNION { {h} \X [Others -> TailTargets(h)] : h \in HeadNodes \cup HeadShapes } }

\* address 1 holds a pointer to address 2, which holds a scalar or a string
ScalarHeaps ==
  { [a \in Addr |-> IF a = 1 THEN PtrV(2, v.type) ELSE IF a = 2 THEN v ELSE NodeV(1, 0, 0)] :
      v \in {IntV(7), StrV("a")} }

\* fdump(cs, w, &x) and fdump(cs, w, x) for the variable x at address 1
Roots(hp) ==
  {PtrV(1, hp[1].type)} \cup (IF hp[1].kind = "interface" THEN {} ELSE {hp[1]})

Configs(maxDepths, sorts, pkgs) ==
  [MaxDepth : maxDepths, SortKeys : sorts, Pkg : pkgs]

\* the values of cs.MaxDepth: no limit, the limits up to MaxDepthCfg, and a
\* negative one
MaxDepths == {-1} \cup 0..MaxDepthCfg

\* one argument over every heap
InitTraversal ==
  /\ heap \in Heaps \cup ScalarHeaps
  /\ args \in { <<r>> : r \in Roots(heap) }
  /\ cs \in Configs(MaxDepths, BOOLEAN, {""})

\* several arguments, of types of several packages, over a heap of two
\* unlinked Nodes
SessionValues ==
  {NilArg, PtrV(0, TNode), PtrV(1, TNode), IntV(1), NodeV(0, 1, 0),
   MapV(TIntMap, FALSE, {Entry(IntV(2), IfaceOf(IntV(1))), Entry(IntV(1), IfaceOf(IntV(0)))})}
    \cup {PodV(pkg, 1) : pkg \in Pkgs}
InitSession ==
  /\ heap = [a \in Addr |-> NodeV(1, 0, 0)]
  /\ args \in UNION { [1..n -> SessionValues] : n \in 0..MaxArgs }
  /\ cs \in Configs({0}, BOOLEAN, {"", "k8s"})

NotCalled == [returned |-> FALSE, result |-> FALSE]

fdumpInit ==
  /\ argi = 1
  /\ imports = NoImports
  /\ structs = <<>>
  /\ w = <<>>
  /\ pc = "loop"
  /\ d = newDumpState
  /\ stack = <<>>

Init ==
  /\ InitTraversal \/ InitSession
  /\ fdumpInit
  /\ isZeroArg = Invalid
  /\ isZeroRet = NotCalled

Next ==
  \/ FdumpSkipNil \/ FdumpDump \/ FdumpCollect \/ FdumpWrite
  \/ DumpLeaf
  \/ DumpPointer \/ DumpPtrWalk \/ DumpPtrNil \/ DumpPtrCircular
  \/ DumpPtrDeref \/ DumpPtrReturn
  \/ DumpSlicePanic \/ DumpSliceNil \/ DumpSliceMax \/ DumpSliceHex
  \/ DumpSliceElems \/ DumpSliceNext
  \/ DumpMapNil \/ DumpMapMax \/ DumpMap \/ DumpMapValue \/ DumpMapNext
  \/ DumpQuantity \/ DumpStructMax \/ DumpStruct \/ DumpStructNext

Spec == Init /\ [][Next]_vars

\* ------------------------------------------- isZero called on its own
\* the values a field of a struct is drawn from
ZeroLeaves ==
  {Invalid, BoolV(FALSE), BoolV(TRUE), IntV(0), IntV(1), Uint8V(0), Uint8V(7),
   UintptrV(0), UintptrV(1), FloatV(0), FloatV(1), ComplexV(0), ComplexV(1),
   ChanV(0), StrV(""), StrV("a"), PtrV(0, TNode), PtrV(1, TNode),
   NilIface, IfaceOf(IntV(0)), IfaceOf(IntV(1)), IfaceOf(StrV("")),
   IfaceOf(PtrV(0, TNode)), IfaceOf(NilBytes), IfaceOf(EmptyBytes),
   NilBytes, EmptyBytes, Bytes, ArrayV(TIntArr0, <<>>),
   ArrayV(TByteArr2, <<Uint8V(0), Uint8V(0)>>),
   MapV(TIntMap, TRUE, {}), MapV(TIntMap, FALSE, {})}

TPair == TNamed(PkgMain, "Pair")
PairV(a, b) == StructV(TPair, <<Field("A", a), Field("B", b)>>)
ZeroStructs ==
  {StructV(TNamed(PkgMain, "Empty"), <<>>)}
    \cup {PairV(a, b) : a \in ZeroLeaves \ {Invalid}, b \in ZeroLeaves \ {Invalid}}
    \cup {PairV(IfaceOf(PairV(a, IntV(0))), PairV(StrV(""), a)) : a \in ZeroLeaves \ {Invalid}}

ZeroInputs == ZeroLeaves \cup ZeroStructs

InitZero ==
  /\ heap = [a \in Addr |-> NodeV(1, 0, 0)]
  /\ args = <<>>
  /\ cs \in Configs({0}, {FALSE}, {""})
  /\ fdumpInit
  /\ isZeroArg \in ZeroInputs
  /\ isZeroRet = NotCalled

\* d.isZero(v), lines 7-61 of part_000
IsZeroCall ==
  /\ ~isZeroRet.returned
  /\ isZeroRet' = [returned |-> TRUE, result |-> isZero(isZeroArg)]
  /\ UNCHANGED <<heap, args, cs, fdumpVars, pc, d, stack, isZeroArg>>

NextZero == IsZeroCall

SpecZero == InitZero /\ [][NextZero]_vars

\* ================================================================ properties
\* the calls of dumpPtr that are active, outermost first
DumpPtrFrames == { i \in DOMAIN stack : stack[i].fn = "dumpPtr" }

\* the addresses call i of dumpPtr went through: its pointerChain without the
\* address on which it found the cycle
Dereferenced(i) ==
  IF stack[i].cycleFound
  THEN SubSeq(stack[i].pointerChain, 1, Len(stack[i].pointerChain) - 1)
  ELSE stack[i].pointerChain

\* the addresses that are being dereferenced when call i reads the last
\* address of its chain
OnPathBefore(i) ==
  UNION { { stack[j].pointerChain[m] : m \in DOMAIN stack[j].pointerChain } :
            j \in { x \in DumpPtrFrames : x < i } }
    \cup { stack[i].pointerChain[m] : m \in 1..(Len(stack[i].pointerChain) - 1) }

\* C1: whatever lies on a cycle of the pointer graph, the traversal does not
\* go through an address a second time while it is still being dereferenced
\* on the active path: the branch that comes back to it gets the
\* circular-reference marker.
C1_CycleNotReentered ==
  \A i \in DumpPtrFrames : \A m \in DOMAIN Dereferenced(i) :
    Dereferenced(i)[m] \notin
      UNION { { stack[j].pointerChain[n] : n \in DOMAIN stack[j].pointerChain } :
                j \in { x \in DumpPtrFrames : x < i } }
        \cup { Dereferenced(i)[n] : n \in 1..(m - 1) }

\* C2: dumpPtr finds a cycle on an address only when an ancestor on the path
\* from the top-level value is dereferencing that address; a pointer met a
\* second time on another branch is dumped in full.
C2_MarkerOnlyOnActivePath ==
  \A i \in DumpPtrFrames :
    stack[i].cycleFound =>
      Last(stack[i].pointerChain) \in OnPathBefore(i)

\* C3: a dump of any value, nil and empty slices and arrays included, never
\* panics.
C3_NeverPanics == pc # "panic"

\* the raw string literal hexDump writes for the bytes of v
ByteLiteral(v) == backquote \o bufString(v.elems) \o backquote
ByteLiterals == {ByteLiteral(Bytes)}

\* C4: the raw string literal of a byte slice or array always stands between
\* the parentheses of a byte-block conversion, never inside a brace block,
\* the pointee of a pointer included.
C4_ByteBlockInParens ==
  \A k \in DOMAIN d.w :
    d.w[k] \in ByteLiterals =>
      /\ k > 1 /\ d.w[k - 1] = openParenBytes
      /\ k < Len(d.w) /\ d.w[k + 1] = closeParenBytes

\* the dump of args[argi] has returned to fdump
DumpReturned == pc = "dump" /\ stack = <<>>

\* what follows the brace opened at k: the indentation, then the marker
MarkerFollows(seq, k) ==
  \E j \in (k + 1)..Len(seq) :
    /\ seq[j] = maxNewlineBytes
    /\ \A m \in (k + 1)..(j - 1) : seq[m] = Indent

\* from token k on, with cur brace blocks open: no block opens below level
\* max, and a block of level max holds the marker
RECURSIVE BlocksBounded(_, _, _, _)
BlocksBounded(seq, k, cur, max) ==
  IF k > Len(seq) THEN TRUE
  ELSE IF seq[k] = openBraceNewlineBytes
  THEN /\ cur + 1 <= max
       /\ cur + 1 = max => MarkerFollows(seq, k)
       /\ BlocksBounded(seq, k + 1, cur + 1, max)
  ELSE IF seq[k] = closeBraceBytes
  THEN BlocksBounded(seq, k + 1, cur - 1, max)
  ELSE BlocksBounded(seq, k + 1, cur, max)

\* C5: with MaxDepth = n > 0 no brace block opens more than n levels below
\* the block of the top-level value, the block n levels below holds the
\* truncation marker in place of its content, and dump is never entered for
\* an element, key or field of such a compound; pointers do not count.
C5_DepthBounded ==
  cs.MaxDepth > 0 =>
    /\ BlocksBounded(d.w, 1, 0, cs.MaxDepth + 1)
    /\ (Running /\ top.pc \in {"enter", "walk"}) => d.depth <= cs.MaxDepth

C5_Witness ==
  /\ DumpReturned
  /\ cs.MaxDepth = 2
  /\ args[argi].kind = "ptr"
  /\ \E k \in DOMAIN d.w : d.w[k] = amperBytes
  /\ \E k \in DOMAIN d.w : d.w[k] = maxNewlineBytes
  /\ \E k \in DOMAIN d.w : d.w[k] = circularBytes

\* the literal fdump kept for argument i
NonNil(i) == args[i].kind # "nilarg"
LiteralOf(i) == structs[Cardinality({ k \in 1..i : NonNil(k) })]

\* C6: with SortKeys set, the keys of a map are taken in ascending order
\* whatever the order MapKeys returned them in, so that two dumps of one map
\* write the same bytes.
C6_SortedKeysSameBytes ==
  cs.SortKeys =>
    /\ \A i \in DOMAIN stack :
         \A m \in 1..(Len(stack[i].keys) - 1) :
           stack[i].keys[m].n < stack[i].keys[m + 1].n
    /\ pc = "done" =>
         \A i, j \in DOMAIN args :
           (args[i].kind = "map" /\ args[i] = args[j]) => LiteralOf(i) = LiteralOf(j)

C6_Witness ==
  /\ pc = "done" /\ cs.SortKeys
  /\ Len(args) = 2 /\ args[1] = args[2]
  /\ args[1].kind = "map" /\ Cardinality(args[1].entries) > 1
  /\ Len(structs) = 2

\* the struct whose brace block is the outermost one of the dump of a
\* struct, or of a pointer to a struct
RootStructs(a) ==
  IF a.kind = "struct" THEN {a}
  ELSE IF a.kind = "ptr" /\ a.addr # 0 /\ heap[a.addr].kind = "struct"
  THEN {heap[a.addr]}
  ELSE {}

\* the number of brace blocks open after token k
RECURSIVE NestAfter(_, _)
NestAfter(seq, k) ==
  IF k = 0 THEN 0
  ELSE NestAfter(seq, k - 1)
         + (IF seq[k] = openBraceNewlineBytes THEN 1
            ELSE IF seq[k] = closeBraceBytes THEN -1 ELSE 0)

\* the names before a colon directly inside the outermost block, in the
\* order they were written
TopNameAt(seq) ==
  { k \in 1..(Len(seq) - 1) : seq[k + 1] = colonSpaceBytes /\ NestAfter(seq, k) = 1 }
NthOf(K, n) == CHOOSE k \in K : Cardinality({ j \in K : j < k }) = n - 1
TopNames(seq) ==
  With(TopNameAt(seq), LAMBDA K : [n \in 1..Cardinality(K) |-> seq[NthOf(K, n)]])

IsPrefix(a, b) == Len(a) <= Len(b) /\ SubSeq(b, 1, Len(a)) = a
IsNonZeroField(f) == ~isZero(f.val)
NonZeroNames(v) ==
  With(SelectSeq(v.fields, IsNonZeroField), LAMBDA fs :
    [n \in 1..Len(fs) |-> fs[n].name])

RECURSIVE ZeroAsListed(_)
ZeroAsListed(v) ==
  \/ v.kind = "bool" /\ ~v.b
  \/ v.kind \in {"int", "uint8", "uintptr", "float64"} /\ v.n = 0
  \/ v.kind = "string" /\ v.s = ""
  \/ v.kind \in {"slice", "map", "interface"} /\ v.isNil
  \/ v.kind = "array" /\ v.elems = <<>>
  \/ v.kind = "struct" /\
       \A i \in DOMAIN v.fields :
         ZeroAsListed(IF v.fields[i].val.kind = "interface" /\ ~v.fields[i].val.isNil
                      THEN v.fields[i].val.val ELSE v.fields[i].val)

C8_ZeroExactlyAsListed ==
  isZeroRet.returned => (isZeroRet.result <=> ZeroAsListed(isZeroArg))

\* the list with the nil pointer added to it
RECURSIVE ZeroWithNilPtr(_)
ZeroWithNilPtr(v) ==
  \/ v.kind = "bool" /\ ~v.b
  \/ v.kind \in {"int", "uint8", "uintptr", "float64"} /\ v.n = 0
  \/ v.kind = "string" /\ v.s = ""
  \/ v.kind = "ptr" /\ v.addr = 0
  \/ v.kind \in {"slice", "map", "interface"} /\ v.isNil
  \/ v.kind = "array" /\ v.elems = <<>>
  \/ v.kind = "struct" /\
       \A i \in DOMAIN v.fields :
         ZeroWithNilPtr(IF v.fields[i].val.kind = "interface" /\ ~v.fields[i].val.isNil
                        THEN v.fields[i].val.val ELSE v.fields[i].val)

\* C8 amended: isZero is true exactly for false, a number that is 0, the
\* empty string, a nil pointer, a nil slice, map or interface, an array of
\* length 0 and a struct whose unpacked fields are all zero; false for the
\* invalid value, a non-nil pointer and anything else.
C8_ZeroWithNilPointer ==
  isZeroRet.returned => (isZeroRet.result <=> ZeroWithNilPtr(isZeroArg))

C8_Witness ==
  /\ isZeroRet.returned /\ isZeroRet.result
  /\ isZeroArg.kind = "struct" /\ Len(isZeroArg.fields) = 2
  /\ isZeroArg.fields[1].val.kind = "ptr"
  /\ isZeroArg.fields[2].val.kind = "interface" /\ ~isZeroArg.fields[2].val.isNil

\* C9: an alias recorded for a key is never replaced: neither by addImport
\* during the traversal of one value nor by the merge of a later value's
\* imports in fdump.
C9_FirstAliasKept ==
  [][/\ \A k \in DOMAIN imports :
          k \in DOMAIN imports' /\ imports'[k] = imports[k]
     /\ (pc = "dump" /\ pc' = "dump") =>
          \A k \in DOMAIN d.imports :
            k \in DOMAIN d'.imports /\ d'.imports[k] = d.imports[k]]_vars

\* the package clauses of the configurations
PackageClauses == { "package " \o p \o "\n\n" : p \in {"", "k8s"} }

\* the tokens of w that come before the literals
HeaderLen == Len(w) - Len(Flatten(structs))
PackageLen == IF cs.Pkg # "" THEN 1 ELSE 0

\* the import specs of the collected imports
ImportSpecs ==
  { "\"" \o JoinPath(k) \o "\"" : k \in DOMAIN imports }
    \cup { imports[k] \o " \"" \o JoinPath(k) \o "\"" : k \in DOMAIN imports }

\* the arguments that are not nil, in their order
IsNonNilArg(a) == a.kind # "nilarg"
NonNilArgs == SelectSeq(args, IsNonNilArg)

\* whether lit starts as the literal of argument a does, for the arguments
\* that tell
StartsAs(lit, a) ==
  CASE a.kind = "struct" /\ ~IsQuantity(a) -> lit[1] = k8sType(NoImports, a).str
    [] a.kind = "ptr" /\ a.addr = 0 -> lit[1] = "nil"
    [] a.kind = "map" -> lit[1] = Join(a.type.str)
    [] OTHER -> TRUE

\* C10: fdump writes nothing before all values are dumped, and then the
\* package clause (exactly when Pkg is set), the import block, and one
\* literal ending in a newline per non-nil argument, in the order of the
\* arguments; nil arguments leave no text and no import.
C10_OutputOrder ==
  /\ pc # "done" => w = <<>>
  /\ pc = "done" =>
       /\ HeaderLen >= PackageLen
       /\ cs.Pkg # "" => w[1] = "package " \o cs.Pkg \o "\n\n"
       /\ \A k \in DOMAIN w : w[k] \in PackageClauses => (k = 1 /\ cs.Pkg # "")
       /\ HeaderLen > PackageLen =>
            /\ w[PackageLen + 1] = "import ("
            /\ w[HeaderLen] = "\n)\n\n"
            /\ \A k \in (PackageLen + 2)..(HeaderLen - 1) :
                 w[k] = "\n\t" \/ w[k] \in ImportSpecs
       /\ SubSeq(w, HeaderLen + 1, Len(w)) = Flatten(structs)
       /\ Len(structs) = Len(NonNilArgs)
       /\ \A i \in DOMAIN structs :
            /\ Last(structs[i]) = newlineBytes
            /\ \A k \in 1..(Len(structs[i]) - 1) : structs[i][k] # newlineBytes
            /\ StartsAs(structs[i], NonNilArgs[i])
       /\ NonNilArgs = <<>> => (imports = NoImports /\ Len(w) = PackageLen)

C10_Witness ==
  /\ pc = "done" /\ cs.Pkg # ""
  /\ Len(args) = 2 /\ args[1] = NilArg
  /\ args[2].kind = "struct" /\ args[2].type.pkgPath = PkgCore
  /\ HeaderLen > PackageLen + 2
  /\ Len(w) > HeaderLen

\* the calls of dump that are between the d.depth++ and the d.depth-- of a
\* slice, array, map or struct
OpenCompounds ==
  { i \in DOMAIN stack :
      stack[i].fn = "dump" /\ stack[i].pc \in {"elem", "key", "val", "field"} }

\* C11: d.depth is never negative; while the traversal runs it is the number
\* of compounds the active calls have opened and not yet closed, so that
\* every call of dump returns with the depth it was entered with, on the
\* normal, the nil and the truncation path; it is 0 when the top-level dump
\* has returned.
C11_DepthSymmetric ==
  /\ d.depth >= 0
  /\ pc = "dump" => d.depth = Cardinality(OpenCompounds)
  /\ DumpReturned => d.depth = 0

C11_Witness ==
  /\ DumpReturned /\ d.depth = 0
  /\ cs.MaxDepth = 1
  /\ \E k \in DOMAIN d.w : d.w[k] = maxNewlineBytes
  /\ \E k \in DOMAIN d.w : d.w[k] = "nil"
  /\ \E k \in DOMAIN d.w : d.w[k] = openParenBytes

\* d.dump(reflect.ValueOf(arg)) is about to run for args[argi]
DumpStarts == pc = "dump" /\ Len(stack) = 1 /\ top.fn = "dump" /\ top.pc = "enter"

\* the arguments whose literal does not hang on the order of map keys
OrderFree(a) == a.kind # "map" \/ cs.SortKeys

\* no variable holds a pointer: an argument reaches each address at most
\* once, whatever was dumped before it
NoPointerInHeap == \A a \in Addr : heap[a] = NodeV(1, 0, 0)

\* C12: the traversal of every argument starts from a fresh dumpState: no
\* pointer recorded, depth 0, both flags clear, nothing written and no
\* import collected; so an argument dumped after another one gets the
\* literal it gets when it is dumped first, and a pointer the argument
\* before went through brings no circular-reference marker.
C12_FreshStatePerValue ==
  /\ DumpStarts =>
       /\ d.pointers = NoPointers /\ d.depth = 0
       /\ ~d.ignoreNextType /\ ~d.ignoreNextIndent
       /\ d.w = <<>> /\ d.imports = NoImports
  /\ pc = "done" =>
       \A i, j \in DOMAIN args :
         (NonNil(i) /\ args[i] = args[j] /\ OrderFree(args[i])) =>
           LiteralOf(i) = LiteralOf(j)
  /\ NoPointerInHeap =>
       \A k \in DOMAIN d.w : d.w[k] # circularBytes

C12_Witness ==
  /\ DumpStarts /\ argi = 2
  /\ args[1].kind = "ptr" /\ args[1].addr # 0
  /\ args[2].kind = "struct"
  /\ \E i \in DOMAIN args[2].fields :
       args[2].fields[i].val.kind = "ptr" /\ args[2].fields[i].val.addr = args[1].addr
  /\ Len(structs) = 1

\* C13: a negative MaxDepth is not acted on: no truncation marker is written
\* under it, as under MaxDepth = 0.
C13_NegativeDepthIgnored ==
  cs.MaxDepth < 0 => \A k \in DOMAIN d.w : d.w[k] # maxNewlineBytes

\* what a step appended to d.w
Written == SubSeq(d'.w, Len(d.w) + 1, Len(d'.w))

\* the levels of address-of in what dumpPtr wrote ahead of the pointee: one
\* for the function that returns &x, else one for each ampersand
AddressLevels(seq, ve) ==
  IF \E k \in DOMAIN seq : seq[k] = funcWrapper(ve) THEN 1
  ELSE Cardinality({ k \in DOMAIN seq : seq[k] = amperBytes })

\* C14: when dumpPtr has walked a chain without nil, what it writes ahead of
\* the pointee or of the circular marker has as many levels of address-of as
\* the chain has pointers (the repeated address of a cycle not counted),
\* whether the pointee takes an ampersand or is wrapped in a function.
C14_AddressLevelsMatchChain ==
  [][(LoopLeft /\ ~top.nilFound /\ pc' = "dump") =>
       AddressLevels(Written, top.ve) = Len(Dereferenced(Len(stack)))]_vars

\* the call that made the innermost call
Caller == stack[Len(stack) - 1]
JustCalled == Running /\ Len(stack) > 1 /\ top.fn = "dump" /\ top.pc = "enter"

Dependencies == DOMAIN imports \ {<<>>}

\* the line of the import block for package k
ImportSpec(k) ==
  IF imports[k] = "" THEN "\"" \o JoinPath(k) \o "\""
  ELSE imports[k] \o " \"" \o JoinPath(k) \o "\""

\* C16: fdump writes the import block exactly when some package was
\* collected over all values, the block then has one line per collected
\* package (bare under an empty alias, aliased otherwise), and values of
\* built-in or unnamed types only give no import block.
C16_ImportBlockIffDependency ==
  pc = "done" =>
    /\ (\E k \in DOMAIN w : w[k] = "import (") <=> Dependencies # {}
    /\ Cardinality({ k \in DOMAIN w : w[k] = "\n\t" }) = Cardinality(Dependencies)
    /\ \A p \in Dependencies :
         \E k \in 2..HeaderLen : w[k - 1] = "\n\t" /\ w[k] = ImportSpec(p)

\* a call of dump is about to handle a quantity that is not zero
EntersQuantity == Entering({"struct"}) /\ IsQuantity(top.v) /\ ~isZero(top.v)

\* C17: every call of dump for a quantity that is not zero writes the
\* constructor call with the marshaled text, leaves the package of the type
\* among the imports and writes no brace block, whether the quantity is a
\* struct field, a map value, a slice element, the value itself or the
\* pointee of a pointer.
C17_QuantityAsConstructorCall ==
  [][EntersQuantity =>
       /\ \E k \in DOMAIN Written :
            Written[k] = "resource.MustParse(" \o MarshalJSON(top.v) \o ")"
       /\ TQuantity.pkgPath \in DOMAIN d'.imports
       /\ \A k \in DOMAIN Written :
            Written[k] \notin {openBraceNewlineBytes, closeBraceBytes}]_vars

\* a call of dump is about to handle a struct other than a quantity
EntersStruct == Entering({"struct"}) /\ ~IsQuantity(top.v)

\* C18: the test dump makes to skip a field is the test isZero makes on that
\* field inside a struct, also for a field of interface type that holds a
\* zero value; so the dump of a struct that isZero reports as zero writes no
\* field.
C18_SkipTestAgreesWithIsZero ==
  [][EntersStruct =>
       /\ \A i \in DOMAIN top.v.fields :
            skipField(top.v, i) = isZero(unpackValue(top.v.fields[i].val))
       /\ isZero(top.v) =>
            \A k \in DOMAIN Written : Written[k] # colonSpaceBytes]_vars

====
